---- MODULE Spec2Model ----
(***************************************************************************)
(* TaskManager (src/script.js): the in-memory task list, its persisted     *)
(* copy in localStorage, the active filter, the rendered view, the         *)
(* statistics and the transient error notice, with one action per event    *)
(* handler.                                                                *)
(*                                                                         *)
(* A string is a sequence of runs [ch |-> c, n |-> k] (k >= 1 copies of    *)
(* the character c), so that a 200-character text is one run.              *)
(***************************************************************************)
EXTENDS Integers, Sequences, FiniteSets

VARIABLES
  tasks,           \* this.tasks: sequence of task objects, newest first
  stored,          \* localStorage entry "tasks"
  now,             \* the clock read by Date.now() / new Date()
  currentFilter,   \* this.currentFilter
  errorMessage,    \* this.errorMessage.textContent
  timers,          \* number of pending setTimeout(clearError) callbacks
  tasksContainer,  \* this.tasksContainer content after the last render
  statsEls,        \* the three statistics elements after the last render
  clearDisabled,   \* this.clearCompletedBtn.disabled
  returned,        \* how the last call ended: the value returned, or the exception
  lastCall,        \* the last call and, for the calls of Recorded, its branch
  tasksType,       \* typeof this.tasks: "array", or "null" / "object" after a bad load
  themeEntry,      \* localStorage entry "theme": "unset", "dark" or "light"
  darkMode,        \* document.documentElement has the class dark-mode
  toggleLabel,     \* aria-label and title of the theme toggle
  listening,       \* attachEventListeners has run on this page
  writable         \* localStorage.setItem succeeds (FALSE: it throws)

vars == <<tasks, stored, now, currentFilter, errorMessage, timers,
          tasksContainer, statsEls, clearDisabled, returned, lastCall,
          tasksType, themeEntry, darkMode, toggleLabel, listening, writable>>

----------------------------------------------------------------------------
\* Bounds of the model

MaxTasks == 3    \* additions are accepted while the list is shorter
MaxClock == 2    \* the clock runs from 1 to MaxClock
MaxTimers == 2   \* pending auto-dismiss timers

\* Program constant: the length limit of a task description
MaxTextLen == 200

----------------------------------------------------------------------------
\* Strings

Whitespace == {" ", "\t", "\n"}

RECURSIVE Length(_)
Length(s) == IF s = <<>> THEN 0 ELSE Head(s).n + Length(Tail(s))

SetMin(S) == CHOOSE x \in S : \A y \in S : x <= y
SetMax(S) == CHOOSE x \in S : \A y \in S : x >= y

TrimNothing(s) == s

\* String.prototype.trim: strip the leading and trailing whitespace
Trim(s) ==
  LET solid == {i \in 1..Len(s) : s[i].ch \notin Whitespace}
  IN  IF solid = {} THEN <<>> ELSE SubSeq(s, SetMin(solid), SetMax(solid))

Run(c, k) == [ch |-> c, n |-> k]

\* The texts a user submits: the two accepted ones differ only in the
\* whitespace around the same 200 characters
Core(k) == <<Run("<", 1), Run("x", k - 1)>>
TextEmpty  == <<>>
TextBlank  == <<Run(" ", 3)>>
TextPadded == <<Run("\n", 1)>> \o Core(MaxTextLen) \o <<Run("\t", 1)>>
TextMax    == <<Run(" ", 2)>> \o Core(MaxTextLen) \o <<Run(" ", 1)>>
TextOver   == <<Run(" ", 1)>> \o Core(MaxTextLen + 1)
Texts == {TextEmpty, TextBlank, TextPadded, TextMax, TextOver}

\* taskInput.value.trim(), tabulated over the texts a user submits
trimmed == [raw \in Texts |-> Trim(raw)]

EmptyMsg == "Please enter a task description"
LongMsg  == "Task description must be 200 characters or less"
NoMsg    == ""

\* What a handler call returns: no handler has a return statement with a value
Undefined == [type |-> "undefined"]

----------------------------------------------------------------------------
\* Persistence: JSON.stringify / JSON.parse of the task array

Pair(k, v) == [key |-> k, val |-> v]

\* An object is written as its key/value pairs in property order
stringifyTask(t) ==
  <<Pair("id", [num |-> t.id]), Pair("text", [str |-> t.text]),
    Pair("completed", [bool |-> t.completed]),
    Pair("createdAt", [str |-> t.createdAt])>>

JSONstringify(ts) == [i \in 1..Len(ts) |-> stringifyTask(ts[i])]

Member(obj, k) == obj[CHOOSE i \in 1..Len(obj) : obj[i].key = k].val

parseTaskPending(obj) ==
  [id |-> Member(obj, "id").num, text |-> Member(obj, "text").str,
   completed |-> FALSE,
   createdAt |-> Member(obj, "createdAt").str]

parseTask(obj) ==
  [id |-> Member(obj, "id").num, text |-> Member(obj, "text").str,
   completed |-> Member(obj, "completed").bool,
   createdAt |-> Member(obj, "createdAt").str]

JSONparse(items) == [i \in 1..Len(items) |-> parseTask(items[i])]

Absent     == [kind |-> "absent"]
Unparsable == [kind |-> "garbage"]
Json(items) == [kind |-> "json", items |-> items]

\* loadTasks: the saved array, or [] when nothing is saved or parsing throws
loadTasks(entry) ==
  IF entry.kind = "json" THEN JSONparse(entry.items) ELSE <<>>

\* saveTasks: the entry after localStorage.setItem("tasks", ...); a setItem
\* that throws is caught and logged, the entry stays as it was
saveTasks(ts) == IF writable THEN Json(JSONstringify(ts)) ELSE stored

----------------------------------------------------------------------------
\* Views of the collection

FilterValues == {"all", "completed", "pending", "archived"}

IsCompleted(t) == t.completed
IsPending(t) == ~t.completed

getFilteredTasksSwapped(ts, f) ==
  CASE f = "completed" -> SelectSeq(ts, IsPending)
    [] f = "pending"   -> SelectSeq(ts, IsCompleted)
    [] OTHER           -> ts

\* getFilteredTasks: the switch over this.currentFilter
getFilteredTasks(ts, f) ==
  CASE f = "completed" -> SelectSeq(ts, IsCompleted)
    [] f = "pending"   -> SelectSeq(ts, IsPending)
    [] OTHER           -> ts

calculateStatsRemainingIsTotal(ts) ==
  LET total == Len(ts)
      completed == Len(SelectSeq(ts, IsCompleted))
  IN  [total |-> total, completed |-> completed, remaining |-> total]

\* calculateStats
calculateStats(ts) ==
  LET total == Len(ts)
      completed == Len(SelectSeq(ts, IsCompleted))
      remaining == total - completed
  IN  [total |-> total, completed |-> completed, remaining |-> remaining]

\* escapeHtml: textContent -> innerHTML replaces &, < and >
escapeChar(c) ==
  CASE c = "&" -> "&amp;"
    [] c = "<" -> "&lt;"
    [] c = ">" -> "&gt;"
    [] OTHER   -> c

escapeHtml(text) == [i \in 1..Len(text) |-> Run(escapeChar(text[i].ch), text[i].n)]

\* createTaskElement: what one .task-item shows
createTaskElement(t) ==
  [taskId |-> t.id, checked |-> t.completed, text |-> escapeHtml(t.text)]

renderTasksUnfiltered(ts, f) ==
  IF Len(ts) = 0
  THEN [empty |-> TRUE, items |-> <<>>,
        message |-> <<"No tasks yet. Add one to get started!">>]
  ELSE [empty |-> FALSE, message |-> <<>>,
        items |-> [i \in 1..Len(ts) |-> createTaskElement(ts[i])]]

\* renderTasks: the empty-state message, or one element per filtered task
renderTasks(ts, f) ==
  LET filteredTasks == getFilteredTasks(ts, f)
  IN  IF Len(filteredTasks) = 0
      THEN [empty |-> TRUE, items |-> <<>>,
            message |-> IF f = "all" THEN <<"No tasks yet. Add one to get started!">>
                        ELSE <<"No ", f, " tasks.">>]
      ELSE [empty |-> FALSE, message |-> <<>>,
            items |-> [i \in 1..Len(filteredTasks) |->
                         createTaskElement(filteredTasks[i])]]

renderDisablesWhenEmpty(ts, f) ==
  /\ tasksContainer' = renderTasks(ts, f)
  /\ statsEls' = calculateStats(ts)
  /\ clearDisabled' = (calculateStats(ts).total = 0)

\* render: renderTasks, then updateStats
render(ts, f) ==
  /\ tasksContainer' = renderTasks(ts, f)
  /\ statsEls' = calculateStats(ts)
  /\ clearDisabled' = (calculateStats(ts).completed = 0)

----------------------------------------------------------------------------
\* Mutations of the collection

\* the task object built by handleAddTask
newTask(text, t) ==
  [id |-> t, text |-> text, completed |-> FALSE, createdAt |-> [iso |-> t]]

push(ts, t) == Append(ts, t)

\* Array.prototype.unshift
unshift(ts, t) == <<t>> \o ts

tooLongFrom200(text) == Length(text) >= MaxTextLen

\* the length check of handleAddTask
tooLong(text) == Length(text) > MaxTextLen

HasId(ts, taskId) == \E i \in 1..Len(ts) : ts[i].id = taskId

\* Array.prototype.find: the index of the first task with the id
find(ts, taskId) == SetMin({i \in 1..Len(ts) : ts[i].id = taskId})

\* task.completed = !task.completed on the task found
toggleComplete(ts, taskId) ==
  [ts EXCEPT ![find(ts, taskId)].completed = ~@]

\* this.tasks.filter((t) => t.id !== taskId)
deleteTask(ts, taskId) ==
  LET Other(t) == t.id # taskId IN SelectSeq(ts, Other)

clearCompletedKeepsFirst(ts) ==
  IF ts = <<>> THEN ts ELSE <<Head(ts)>> \o SelectSeq(Tail(ts), IsPending)

\* this.tasks.filter((t) => !t.completed)
clearCompleted(ts) == SelectSeq(ts, IsPending)

----------------------------------------------------------------------------
\* The error notice

\* showError: set the message and start one auto-dismiss timer
showError(message) ==
  /\ timers < MaxTimers
  /\ errorMessage' = message
  /\ timers' = timers + 1

\* The calls whose branch lastCall tells apart; every other call is "other"
Recorded ==
  {<<"constructor", "done">>, <<"toggle", "absent">>, <<"clear", "removed">>,
   <<"clear", "nothing">>}

Call(op, branch) ==
  IF <<op, branch>> \in Recorded THEN [op |-> op, branch |-> branch]
  ELSE [op |-> "other", branch |-> "done"]

\* A call that ends with an uncaught exception
Throw(error) == [type |-> "throw", error |-> error]

\* What the page shows where the script has not rendered: its static markup
Unrendered == [empty |-> TRUE, items |-> <<>>, message |-> <<"(static markup)">>]
UnrenderedStats == [total |-> -1, completed |-> -1, remaining |-> -1]
UnrenderedLabel == "(static markup)"

----------------------------------------------------------------------------
\* The theme

ThemeOf(dark) == IF dark THEN "dark" ELSE "light"
LabelOf(dark) == IF dark THEN "Toggle light mode" ELSE "Toggle dark mode"

\* initDarkMode: the theme startup chooses
initialDark(savedTheme, prefersDark) ==
  savedTheme = "dark" \/ (savedTheme = "unset" /\ prefersDark)

\* enableDarkMode (dark = TRUE) / disableDarkMode (dark = FALSE): the class
\* of the document, then localStorage.setItem("theme", ...), then the
\* label of the toggle; a setItem that throws ends the function
applyTheme(dark, label) ==
  /\ darkMode' = dark
  /\ IF writable
     THEN /\ themeEntry' = ThemeOf(dark)
          /\ toggleLabel' = LabelOf(dark)
     ELSE /\ themeEntry' = themeEntry
          /\ toggleLabel' = label

----------------------------------------------------------------------------
\* Construction: new TaskManager() on a page load

\* the type of what loadTasks returns: JSON.parse of "null" or of an object
\* is returned as it is
loadedType(entry) ==
  CASE entry.kind = "null"   -> "null"
    [] entry.kind = "object" -> "object"
    [] OTHER                 -> "array"

Init ==
  /\ stored \in {Absent, Unparsable}
  /\ tasks = loadTasks(stored)
  /\ tasksType = "array"
  /\ writable = TRUE
  /\ listening = TRUE
  /\ \E prefersDark \in BOOLEAN :
       /\ darkMode = initialDark("unset", prefersDark)
       /\ themeEntry = ThemeOf(darkMode)
       /\ toggleLabel = LabelOf(darkMode)
  /\ currentFilter = "all"
  /\ tasksContainer = renderTasks(tasks, "all")
  /\ statsEls = calculateStats(tasks)
  /\ clearDisabled = (calculateStats(tasks).completed = 0)
  /\ now = 1
  /\ errorMessage = NoMsg
  /\ timers = 0
  /\ returned = Undefined
  /\ lastCall = Call("constructor", "done")

\* The page is loaded again: a new TaskManager over the same localStorage.
\* The constructor loads the tasks, then init() runs initDarkMode,
\* attachEventListeners and render; an exception ends it where it is thrown.
Reload ==
  /\ tasks' = loadTasks(stored)
  /\ tasksType' = loadedType(stored)
  /\ currentFilter' = "all"
  /\ errorMessage' = NoMsg
  /\ timers' = 0
  /\ \E prefersDark \in BOOLEAN :
       applyTheme(initialDark(themeEntry, prefersDark), UnrenderedLabel)
  /\ IF ~writable
     THEN \* setItem("theme") throws in initDarkMode
          /\ listening' = FALSE
          /\ returned' = Throw("QuotaExceededError")
          /\ lastCall' = Call("constructor", "threw")
          /\ tasksContainer' = Unrendered
          /\ statsEls' = UnrenderedStats
          /\ clearDisabled' \in BOOLEAN
     ELSE IF loadedType(stored) # "array"
     THEN \* renderTasks throws on filteredTasks.length / filteredTasks.map
          /\ listening' = TRUE
          /\ returned' = Throw("TypeError")
          /\ lastCall' = Call("constructor", "threw")
          /\ tasksContainer' = Unrendered
          /\ statsEls' = UnrenderedStats
          /\ clearDisabled' \in BOOLEAN
     ELSE /\ listening' = TRUE
          /\ returned' = Undefined
          /\ lastCall' = Call("constructor", "done")
          /\ render(loadTasks(stored), "all")
  /\ UNCHANGED <<stored, now, writable>>

----------------------------------------------------------------------------
\* Event handlers

themeVars == <<themeEntry, darkMode, toggleLabel>>
pageVars == <<listening, writable>>

\* A handler that throws a TypeError on this.tasks before it changes anything
throwsTypeError ==
  /\ returned' = Throw("TypeError")
  /\ lastCall' = Call("other", "threw")
  /\ UNCHANGED <<tasks, stored, tasksContainer, statsEls, clearDisabled>>

\* The form's submit listener and handleAddTask, with taskInput.value = raw
Submit(raw) ==
  LET taskText == trimmed[raw]
  IN  /\ listening
      /\ IF taskText = <<>>
         THEN /\ showError(EmptyMsg)
              /\ returned' = Undefined
              /\ lastCall' = Call("add", "empty")
              /\ UNCHANGED <<tasks, stored, tasksContainer, statsEls, clearDisabled>>
         ELSE IF tooLong(taskText)
         THEN /\ showError(LongMsg)
              /\ returned' = Undefined
              /\ lastCall' = Call("add", "too_long")
              /\ UNCHANGED <<tasks, stored, tasksContainer, statsEls, clearDisabled>>
         ELSE IF tasksType # "array"
         THEN /\ throwsTypeError
              /\ UNCHANGED <<errorMessage, timers>>
         ELSE /\ Len(tasks) < MaxTasks
              /\ tasks' = unshift(tasks, newTask(taskText, now))
              /\ stored' = saveTasks(tasks')
              /\ render(tasks', currentFilter)
              /\ returned' = Undefined
              /\ lastCall' = Call("add", "added")
              /\ UNCHANGED <<errorMessage, timers>>
      /\ UNCHANGED <<now, currentFilter, tasksType, themeVars, pageVars>>

handleToggleCompleteAlwaysSaves(taskId) ==
  /\ listening
  /\ tasksType = "array"
  /\ returned' = Undefined
  /\ tasks' = IF HasId(tasks, taskId) THEN toggleComplete(tasks, taskId) ELSE tasks
  /\ stored' = saveTasks(tasks')
  /\ render(tasks', currentFilter)
  /\ lastCall' = Call("toggle", IF HasId(tasks, taskId) THEN "found" ELSE "absent")
  /\ UNCHANGED <<now, currentFilter, errorMessage, timers, tasksType, themeVars,
                 pageVars>>

\* handleToggleComplete(taskId)
handleToggleComplete(taskId) ==
  /\ listening
  /\ IF tasksType # "array"
     THEN throwsTypeError
     ELSE IF HasId(tasks, taskId)
     THEN /\ tasks' = toggleComplete(tasks, taskId)
          /\ stored' = saveTasks(tasks')
          /\ render(tasks', currentFilter)
          /\ returned' = Undefined
          /\ lastCall' = Call("toggle", "found")
     ELSE /\ returned' = Undefined
          /\ lastCall' = Call("toggle", "absent")
          /\ UNCHANGED <<tasks, stored, tasksContainer, statsEls, clearDisabled>>
  /\ UNCHANGED <<now, currentFilter, errorMessage, timers, tasksType, themeVars,
                 pageVars>>

handleDeleteTaskWithoutSave(taskId) ==
  /\ listening
  /\ tasksType = "array"
  /\ tasks' = deleteTask(tasks, taskId)
  /\ render(tasks', currentFilter)
  /\ returned' = Undefined
  /\ lastCall' = Call("delete", "done")
  /\ UNCHANGED <<stored, now, currentFilter, errorMessage, timers, tasksType,
                 themeVars, pageVars>>

\* handleDeleteTask(taskId)
handleDeleteTask(taskId) ==
  /\ listening
  /\ IF tasksType # "array"
     THEN throwsTypeError
     ELSE /\ tasks' = deleteTask(tasks, taskId)
          /\ stored' = saveTasks(tasks')
          /\ render(tasks', currentFilter)
          /\ returned' = Undefined
          /\ lastCall' = Call("delete", IF HasId(tasks, taskId) THEN "found"
                                         ELSE "absent")
  /\ UNCHANGED <<now, currentFilter, errorMessage, timers, tasksType, themeVars,
                 pageVars>>

handleClearCompletedSavesIfRemoved(confirmed) ==
  /\ listening
  /\ tasksType = "array"
  /\ returned' = Undefined
  /\ IF confirmed /\ clearCompleted(tasks) # tasks
     THEN /\ tasks' = clearCompleted(tasks)
          /\ stored' = saveTasks(tasks')
          /\ render(tasks', currentFilter)
          /\ lastCall' = Call("clear", "removed")
     ELSE /\ lastCall' = Call("clear", IF confirmed THEN "nothing" ELSE "declined")
          /\ UNCHANGED <<tasks, stored, tasksContainer, statsEls, clearDisabled>>
  /\ UNCHANGED <<now, currentFilter, errorMessage, timers, tasksType, themeVars,
                 pageVars>>

\* handleClearCompleted, with the user's answer to confirm(); a click event
\* that a script dispatches reaches it also while the control is disabled
handleClearCompleted(confirmed) ==
  /\ listening
  /\ IF confirmed
     THEN IF tasksType # "array"
          THEN throwsTypeError
          ELSE /\ tasks' = clearCompleted(tasks)
               /\ stored' = saveTasks(tasks')
               /\ render(tasks', currentFilter)
               /\ returned' = Undefined
               /\ lastCall' = Call("clear", IF clearCompleted(tasks) = tasks
                                             THEN "nothing" ELSE "removed")
     ELSE /\ returned' = Undefined
          /\ lastCall' = Call("clear", "declined")
          /\ UNCHANGED <<tasks, stored, tasksContainer, statsEls, clearDisabled>>
  /\ UNCHANGED <<now, currentFilter, errorMessage, timers, tasksType, themeVars,
                 pageVars>>

\* handleFilterChange, with e.target.dataset.filter = filterValue
handleFilterChange(filterValue) ==
  /\ listening
  /\ currentFilter' = filterValue
  /\ IF tasksType # "array"
     THEN /\ returned' = Throw("TypeError")
          /\ UNCHANGED <<tasksContainer, statsEls, clearDisabled>>
     ELSE /\ render(tasks, filterValue)
          /\ returned' = Undefined
  /\ lastCall' = Call("filter", "done")
  /\ UNCHANGED <<tasks, stored, now, errorMessage, timers, tasksType, themeVars,
                 pageVars>>

\* handleDarkModeToggle
handleDarkModeToggle ==
  /\ listening
  /\ applyTheme(~darkMode, toggleLabel)
  /\ returned' = IF writable THEN Undefined ELSE Throw("QuotaExceededError")
  /\ lastCall' = Call("theme", "done")
  /\ UNCHANGED <<tasks, stored, now, currentFilter, errorMessage, timers,
                 tasksContainer, statsEls, clearDisabled, tasksType, pageVars>>

\* clearError
clearError ==
  /\ errorMessage' = NoMsg
  /\ returned' = Undefined

\* The input listener of the text field
InputEvent ==
  /\ listening
  /\ clearError
  /\ lastCall' = Call("input", "done")
  /\ UNCHANGED <<tasks, stored, now, currentFilter, timers, tasksContainer,
                 statsEls, clearDisabled, tasksType, themeVars, pageVars>>

\* The oldest pending timer of showError fires (equal delays: the timers
\* fire in the order they were started)
TimerFires ==
  /\ timers > 0
  /\ timers' = timers - 1
  /\ clearError
  /\ lastCall' = Call("timer", "done")
  /\ UNCHANGED <<tasks, stored, now, currentFilter, tasksContainer, statsEls,
                 clearDisabled, tasksType, themeVars, pageVars>>

\* The clock advances
Tick ==
  /\ now < MaxClock
  /\ now' = now + 1
  /\ UNCHANGED <<tasks, stored, currentFilter, errorMessage, timers,
                 tasksContainer, statsEls, clearDisabled, returned, lastCall,
                 tasksType, themeVars, pageVars>>

TaskIds == 1..MaxClock

Next ==
  \/ \E raw \in Texts : Submit(raw)
  \/ \E taskId \in TaskIds : handleToggleComplete(taskId)
  \/ \E taskId \in TaskIds : handleDeleteTask(taskId)
  \/ \E confirmed \in BOOLEAN : handleClearCompleted(confirmed)
  \/ \E filterValue \in FilterValues : handleFilterChange(filterValue)
  \/ handleDarkModeToggle
  \/ InputEvent
  \/ TimerFires
  \/ Tick
  \/ Reload

\* The program alone: nothing else writes localStorage and its writes succeed
Spec == Init /\ [][Next]_vars

----------------------------------------------------------------------------
\* The program in a browser where localStorage is shared and may be full

\* Entries another script of the origin can leave under the key "tasks":
\* the texts "null" and "{}", and arrays of tasks the form would refuse
NullEntry == [kind |-> "null"]
ObjectEntry == [kind |-> "object"]
ForeignEntries ==
  {NullEntry, ObjectEntry,
   Json(JSONstringify(<<newTask(TextEmpty, 1)>>)),
   Json(JSONstringify(<<newTask(Core(MaxTextLen + 1), 1)>>))}

\* Another script of the origin writes the key "tasks"
ForeignWrite(entry) ==
  /\ stored' = entry
  /\ UNCHANGED <<tasks, now, currentFilter, errorMessage, timers,
                 tasksContainer, statsEls, clearDisabled, returned, lastCall,
                 tasksType, themeVars, pageVars>>

\* The user clears the site data: localStorage.clear()
ClearStorage ==
  /\ stored' = Absent
  /\ themeEntry' = "unset"
  /\ UNCHANGED <<tasks, now, currentFilter, errorMessage, timers,
                 tasksContainer, statsEls, clearDisabled, returned, lastCall,
                 tasksType, darkMode, toggleLabel, pageVars>>

\* The quota of the origin is exhausted (setItem throws), or freed again
StorageFills ==
  /\ writable
  /\ writable' = FALSE
  /\ UNCHANGED <<tasks, stored, now, currentFilter, errorMessage, timers,
                 tasksContainer, statsEls, clearDisabled, returned, lastCall,
                 tasksType, themeVars, listening>>

StorageFrees ==
  /\ ~writable
  /\ writable' = TRUE
  /\ UNCHANGED <<tasks, stored, now, currentFilter, errorMessage, timers,
                 tasksContainer, statsEls, clearDisabled, returned, lastCall,
                 tasksType, themeVars, listening>>

NextShared ==
  \/ \E raw \in Texts : Submit(raw)
  \/ \E taskId \in TaskIds : handleToggleComplete(taskId)
  \/ \E taskId \in TaskIds : handleDeleteTask(taskId)
  \/ \E confirmed \in BOOLEAN : handleClearCompleted(confirmed)
  \/ \E filterValue \in FilterValues : handleFilterChange(filterValue)
  \/ handleDarkModeToggle
  \/ Reload
  \/ \E entry \in ForeignEntries : ForeignWrite(entry)
  \/ ClearStorage

\* The program with other writers of its localStorage
SpecShared == Init /\ [][NextShared]_vars

NextFail ==
  \/ \E raw \in Texts : Submit(raw)
  \/ \E taskId \in TaskIds : handleToggleComplete(taskId)
  \/ \E taskId \in TaskIds : handleDeleteTask(taskId)
  \/ \E confirmed \in BOOLEAN : handleClearCompleted(confirmed)
  \/ handleDarkModeToggle
  \/ Reload
  \/ StorageFills
  \/ StorageFrees

\* The program with a localStorage whose writes can fail
SpecFail == Init /\ [][NextFail]_vars

----------------------------------------------------------------------------
\* Vocabulary of the properties

\* The elements of ts at the positions S, in increasing position
Pick(ts, S) ==
  [k \in 1..Cardinality(S) |->
     ts[CHOOSE i \in S : Cardinality({j \in S : j < i}) = k - 1]]

Positions(ts) == 1..Len(ts)
CompletedAt(ts) == {i \in Positions(ts) : ts[i].completed}
PendingAt(ts) == {i \in Positions(ts) : ~ts[i].completed}
WithId(ts, taskId) == {i \in Positions(ts) : ts[i].id = taskId}

\* ts without its k-th element
Without(ts, k) == SubSeq(ts, 1, k - 1) \o SubSeq(ts, k + 1, Len(ts))

Flipped(t) == [t EXCEPT !.completed = ~t.completed]

\* Values a call could return, beside Undefined
Boolean(b) == [type |-> "boolean", val |-> b]
Number(k) == [type |-> "number", val |-> k]

\* raw without its leading and trailing whitespace: the part from the first
\* to the last character that is no whitespace
TrimmedForm(raw) ==
  IF \A i \in Positions(raw) : raw[i].ch \in Whitespace THEN <<>>
  ELSE LET p == CHOOSE q \in Positions(raw) \X Positions(raw) :
                  /\ raw[q[1]].ch \notin Whitespace
                  /\ raw[q[2]].ch \notin Whitespace
                  /\ \A i \in Positions(raw) :
                       (i < q[1] \/ i > q[2]) => raw[i].ch \in Whitespace
       IN  SubSeq(raw, p[1], p[2])

\* What the browser displays for escaped text: the entities read back
Displayed(html) ==
  [i \in 1..Len(html) |->
     [ch |-> CASE html[i].ch = "&amp;" -> "&"
               [] html[i].ch = "&lt;"  -> "<"
               [] html[i].ch = "&gt;"  -> ">"
               [] OTHER                -> html[i].ch,
      n |-> html[i].n]]

\* The positions of ts that the filter f selects
Selected(ts, f) ==
  CASE f = "completed" -> CompletedAt(ts)
    [] f = "pending"   -> PendingAt(ts)
    [] OTHER           -> Positions(ts)

RECURSIVE Chars(_)
Chars(s) == IF s = <<>> THEN 0 ELSE s[1].n + Chars(Tail(s))

\* The two, tabulated over the texts a user submits
TrimmedForms == [raw \in Texts |-> TrimmedForm(raw)]
TrimmedChars == [raw \in Texts |-> Chars(TrimmedForm(raw))]

----------------------------------------------------------------------------
\* C1: in every reachable state (two additions within one clock tick
\* included) the tasks of the collection have pairwise distinct ids.
UniqueIds ==
  \A i, j \in Positions(tasks) : i # j => tasks[i].id # tasks[j].id

\* C2: an addition whose trimmed text is non-empty and at most 200
\* characters long makes the collection one longer; the new task has the
\* trimmed text and completed = FALSE and is the first element of the "all"
\* view, and the tasks present before follow it unchanged, in their order.
AddPrepends ==
  [][\A raw \in Texts :
       (/\ TrimmedForms[raw] # <<>>
        /\ TrimmedChars[raw] <= MaxTextLen
        /\ Submit(raw))
       => LET view == getFilteredTasks(tasks', "all")
          IN  /\ Len(tasks') = Len(tasks) + 1
              /\ view = tasks'
              /\ view[1].text = TrimmedForms[raw]
              /\ view[1].completed = FALSE
              /\ \A i \in Positions(tasks) : view[i + 1] = tasks[i]]_vars

AddPrependsSeen ==
  /\ Len(tasks) >= 3
  /\ ~tasks[1].completed
  /\ \E i \in Positions(tasks) : tasks[i].completed

\* C3: an addition whose text is empty or only whitespace fails with the
\* notice for an empty description and leaves the collection and the
\* persisted entry unchanged.
EmptyAddRejected ==
  [][\A raw \in Texts :
       (/\ \A i \in Positions(raw) : raw[i].ch \in Whitespace
        /\ Submit(raw))
       => /\ errorMessage' = EmptyMsg
          /\ tasks' = tasks
          /\ stored' = stored]_vars

EmptyAddRejectedSeen ==
  /\ errorMessage = EmptyMsg
  /\ Len(tasks) >= 1
  /\ stored.kind = "json"

\* C4: the length limit is applied to the trimmed text, with the boundary
\* at 200: a trimmed text of 201 characters or more fails with the notice
\* for a too long description and leaves the collection unchanged; a
\* trimmed text of exactly 200 characters is added.
LengthBoundary ==
  [][\A raw \in Texts :
       Submit(raw)
       => /\ TrimmedChars[raw] >= MaxTextLen + 1
               => /\ errorMessage' = LongMsg
                  /\ tasks' = tasks
                  /\ stored' = stored
          /\ TrimmedChars[raw] = MaxTextLen
               => /\ Len(tasks') = Len(tasks) + 1
                  /\ tasks'[1].text = TrimmedForms[raw]
                  /\ errorMessage' = errorMessage]_vars

LengthBoundarySeen ==
  /\ errorMessage = LongMsg
  /\ Len(tasks) >= 1
  /\ Chars(tasks[1].text) = MaxTextLen

\* C5: for an id present in the collection, toggleComplete(id) flips the
\* completed flag of the task with that id and changes nothing else (no
\* other task, no other field, no position, not the size), and toggling
\* the same id twice restores the collection.
ToggleFlipsTheTask ==
  [][\A taskId \in TaskIds :
       (WithId(tasks, taskId) # {} /\ handleToggleComplete(taskId))
       => /\ Len(tasks') = Len(tasks)
          /\ \A i \in Positions(tasks) :
               tasks'[i] = IF tasks[i].id = taskId THEN Flipped(tasks[i])
                           ELSE tasks[i]
          /\ toggleComplete(tasks', taskId) = tasks]_vars

\* C6 as stated: toggleComplete with an id that is not in the collection
\* returns false, shows no error and leaves the collection and the
\* persisted entry unchanged.
ToggleAbsentReturnsFalse ==
  [][\A taskId \in TaskIds :
       (WithId(tasks, taskId) = {} /\ handleToggleComplete(taskId))
       => /\ returned' = Boolean(FALSE)
          /\ errorMessage' = errorMessage
          /\ tasks' = tasks
          /\ stored' = stored]_vars

\* C6 as amended: toggleComplete with an id that is not in the collection
\* returns no value (undefined), shows no error and leaves the collection
\* and the persisted entry unchanged.
ToggleAbsentNoOp ==
  [][\A taskId \in TaskIds :
       (WithId(tasks, taskId) = {} /\ handleToggleComplete(taskId))
       => /\ returned' = Undefined
          /\ errorMessage' = errorMessage
          /\ tasks' = tasks
          /\ stored' = stored]_vars

ToggleAbsentSeen ==
  /\ lastCall = Call("toggle", "absent")
  /\ Len(tasks) >= 1
  /\ stored.kind = "json"

\* C7: deleteTask(id) removes the task with the id when it is present and
\* leaves every other task unchanged, in its order; when no task has the
\* id the collection is unchanged.
DeleteRemovesTheTask ==
  [][\A taskId \in TaskIds :
       handleDeleteTask(taskId)
       => IF WithId(tasks, taskId) = {}
          THEN tasks' = tasks
          ELSE \E k \in WithId(tasks, taskId) : tasks' = Without(tasks, k)]_vars

\* C8 as stated: clearCompleted removes exactly the completed tasks,
\* returns the number removed and leaves the pending tasks unchanged, in
\* their order.
ClearReturnsCount ==
  [][handleClearCompleted(TRUE)
       => /\ tasks' = Pick(tasks, PendingAt(tasks))
          /\ returned' = Number(Cardinality(CompletedAt(tasks)))]_vars

\* C8 as amended: clearCompleted, once the user has confirmed, removes
\* exactly the completed tasks and leaves the pending tasks unchanged, in
\* their order; it returns no value (undefined).
ClearRemovesCompleted ==
  [][handleClearCompleted(TRUE)
       => /\ tasks' = Pick(tasks, PendingAt(tasks))
          /\ Len(tasks') = Len(tasks) - Cardinality(CompletedAt(tasks))
          /\ returned' = Undefined]_vars

ClearRemovesCompletedSeen ==
  /\ lastCall = Call("clear", "removed")
  /\ Len(tasks) >= 2
  /\ \E i, j \in Positions(tasks) : tasks[i].id # tasks[j].id

\* C9: filteredView changes nothing and returns, for "all", the whole
\* collection in order; for "completed" (for "pending") exactly the tasks
\* with completed = TRUE (= FALSE), in their order; for any other filter
\* value the same as for "all".
FilteredViewProjects ==
  /\ [](\A f \in FilterValues :
          getFilteredTasks(tasks, f) =
            CASE f = "completed" -> Pick(tasks, CompletedAt(tasks))
              [] f = "pending"   -> Pick(tasks, PendingAt(tasks))
              [] f = "all"       -> tasks
              [] OTHER           -> getFilteredTasks(tasks, "all"))
  /\ [][\A f \in FilterValues :
          handleFilterChange(f) => (tasks' = tasks /\ stored' = stored)]_vars

FilteredViewSeen ==
  /\ currentFilter = "archived"
  /\ tasksContainer.empty = FALSE
  /\ \E i, j, k \in Positions(tasks) :
       /\ i < j /\ j < k
       /\ tasks[i].completed /\ ~tasks[j].completed /\ tasks[k].completed

\* C10: in every reachable state stats() has total = the size of the
\* collection, completed = the number of completed tasks and
\* remaining = total - completed; total = completed + remaining and the
\* three are >= 0.
StatsConsistent ==
  LET s == calculateStats(tasks)
  IN  /\ s.total = Len(tasks)
      /\ s.completed = Cardinality(CompletedAt(tasks))
      /\ s.remaining = s.total - s.completed
      /\ s.total = s.completed + s.remaining
      /\ s.total >= 0 /\ s.completed >= 0 /\ s.remaining >= 0

StatsConsistentSeen ==
  /\ Len(tasks) = 3
  /\ calculateStats(tasks) = [total |-> 3, completed |-> 1, remaining |-> 2]

\* C11: saving a collection and loading it again, as a page reload does,
\* yields an equal collection: the same tasks in the same order, with the
\* same id, text, completed and createdAt.
RoundTrip ==
  LET loaded == loadTasks(saveTasks(tasks))
  IN  /\ Len(loaded) = Len(tasks)
      /\ \A i \in Positions(tasks) :
           /\ loaded[i].id = tasks[i].id
           /\ loaded[i].text = tasks[i].text
           /\ loaded[i].completed = tasks[i].completed
           /\ loaded[i].createdAt = tasks[i].createdAt
      /\ loaded = tasks

RoundTripSeen ==
  /\ lastCall = Call("constructor", "done")
  /\ stored = saveTasks(tasks)
  /\ \E i, j \in Positions(tasks) :
       /\ i < j
       /\ tasks[i].completed /\ ~tasks[j].completed
       /\ tasks[i].id # tasks[j].id

\* C12: whatever the entry "tasks" holds, a page load does not throw and,
\* when the entry is absent or is no array of tasks (text that is no JSON,
\* the text "null", an object), starts with the empty collection.
LoadSwallowsCorruption ==
  [][Reload
       => /\ returned' = Undefined
          /\ tasksType' = "array"
          /\ stored.kind # "json" => tasks' = <<>>]_vars

\* C13: a localStorage write that throws never ends an operation with an
\* exception and never stops the page from handling events: the mutation
\* in memory is kept and later events are handled.
WriteFailureNotFatal ==
  /\ returned.type # "throw"
  /\ listening

\* C14: in every state, the state right after a page load included, no
\* task has a text that is empty or longer than 200 characters.
TaskTextsValid ==
  tasksType = "array"
    => \A i \in Positions(tasks) :
         /\ tasks[i].text # <<>>
         /\ Chars(tasks[i].text) <= MaxTextLen

\* C15: a page load reads the entry "theme" and neither creates nor changes
\* it: only handleDarkModeToggle writes it.
StartupKeepsThemeEntry ==
  [][Reload => themeEntry' = themeEntry]_vars

ClearWritesOnlyIfRemoved ==
  [][(CompletedAt(tasks) = {} /\ handleClearCompleted(TRUE))
       => stored' = stored]_vars

\* C17 as amended: clearCompleted, once the user has confirmed, always
\* writes the entry "tasks", which then encodes the collection as it is
\* after the call, whether or not a task was removed; a declined
\* confirmation writes nothing.
ClearAlwaysWrites ==
  [][\A confirmed \in BOOLEAN :
       handleClearCompleted(confirmed)
       => IF confirmed
          THEN /\ stored'.kind = "json"
               /\ loadTasks(stored') = Pick(tasks, PendingAt(tasks))
          ELSE stored' = stored]_vars

ClearAlwaysWritesSeen ==
  /\ lastCall = Call("clear", "nothing")
  /\ stored.kind = "json"
  /\ Len(tasks) >= 1

\* C18: the timer of an earlier notice does not clear a later notice: a
\* timer that fires while a newer timer is pending leaves the notice shown.
TimerSparesNewerNotice ==
  [][(timers >= 2 /\ errorMessage # NoMsg /\ TimerFires)
       => errorMessage' = errorMessage]_vars

PersistedFollowsMemory ==
  /\ loadTasks(stored) = tasks
  /\ Len(tasks) >= 1 => stored.kind = "json"
  /\ lastCall = Call("constructor", "done") => currentFilter = "all"

PersistedFollowsMemorySeen ==
  /\ lastCall = Call("constructor", "done")
  /\ now = 2
  /\ Len(tasks) = 2
  /\ tasks[1].completed /\ ~tasks[2].completed

====
